---- MODULE Spec2Model ----
(***************************************************************************)
(* voice_reverser: the audio pipeline of src/services/AudioProcessor.ts.   *)
(*                                                                         *)
(*   reverseAudioBuffer   blob -> decoded AudioBuffer -> reversed buffer   *)
(*   audioBufferToWavBlob AudioBuffer -> 44-byte RIFF/WAVE header + PCM16  *)
(*                                                                         *)
(* Samples are Float32Array elements.  A sample is modelled by its integer *)
(* numerator over SampleDen: the sample n stands for the number            *)
(* n / SampleDen.  The products s * 0x7FFF and s * 0x8000 of a float32 by  *)
(* a 16-bit integer are exact in a double, so integer arithmetic on the    *)
(* numerators computes what the code computes.                             *)
(*                                                                         *)
(* Float32Array storage is a heap of arrays: an AudioBuffer holds the      *)
(* addresses of its channel arrays, getChannelData hands out such an       *)
(* address, and a write through an address is seen by every holder of it.  *)
(***************************************************************************)
EXTENDS Integers, Sequences, FiniteSets, TLC

\* ---------------------------------------------------------------- bounds
MaxChannels == 2
\* numberOfChannels * length of the buffers that are drawn
MaxTotal == 4
\* a sample n is the number n / SampleDen
SampleDen == 2

\* the sample numerators that are drawn: with SampleDen = 2 these are
\* -1.5, -1, -0.5, 0, 0.5, 1 and 1.5
Samples == {-3, -2, -1, 0, 1, 2, 3}
SampleRates == {44100, 96000}
\* what a caller stores into a channel it holds
WriteValues == {0, SampleDen}

VARIABLES
  audioContext,    \* the module-level context: FALSE is null
  pc,              \* where the call stands
  heap,            \* Float32Array storage: address -> sequence of samples
  audioBuffer,     \* what decodeAudioData resolved with
  decodedSamples,  \* the samples decodeAudioData delivered, channel by channel
  rejection,       \* the await that rejected inside the try block
  returned,        \* how reverseAudioBuffer's promise settled
  reversedBuffer,  \* the buffer it resolved with
  wav,             \* the Blob: its bytes and its type
  lastWrite,       \* the store a holder of a channel made after the call
  calls,           \* concurrent reverseAudioBuffer calls: each call's locals
  \* ---- App (src/components/AudioPlayer.tsx, lines 33-183)
  step,                       \* AppStep
  originalAudioBlob,          \* FALSE is null
  reversedOriginalAudioUrl,   \* FALSE is null
  reversedImitationAudioUrl,  \* FALSE is null
  error,                      \* FALSE is null
  permissionPending,          \* handleStart calls awaiting getUserMedia
  requests,                   \* processAndReverseAudio awaiting reverseAudioBuffer, per target
  \* ---- Recorder (src/components/Recorder.tsx) and the media objects it makes
  rec,             \* the mounted Recorder: its state and refs
  pendingStarts,   \* startRecording calls awaiting getUserMedia
  streams,         \* the MediaStreams getUserMedia resolved with
  recorders,       \* the MediaRecorders constructed
  timers,          \* the live intervals: [id, instance]
  \* ---- history
  instances,       \* Recorder instances mounted so far
  flows,           \* handleStart calls so far
  starts,          \* startRecording calls so far
  onStops,         \* the onStop deliveries: [instance, status]
  failedFlow,      \* the flow in which the latest failure was reported (0: none)
  lastSettled      \* the processAndReverseAudio request that resumed last

\* the variables of one reverseAudioBuffer call and of what is done with its result
callVars == <<pc, audioBuffer, decodedSamples, rejection, returned,
              reversedBuffer, wav, lastWrite>>
\* the variables of the concurrent calls
parVars == <<calls>>
\* the variables of the application and its Recorder
appVars == <<step, originalAudioBlob, reversedOriginalAudioUrl,
             reversedImitationAudioUrl, error, permissionPending, requests,
             rec, pendingStarts, streams, recorders, timers,
             instances, flows, starts, onStops, failedFlow, lastSettled>>
\* what the single-call specifications leave alone
restVars == <<parVars, appVars>>

vars == <<audioContext, heap, callVars, restVars>>

\* ------------------------------------------------------------ data model
NoBuffer == [sampleRate |-> 0, numberOfChannels |-> 0, length |-> 0, data |-> <<>>]
NoBlob == [bytes |-> <<>>, type |-> ""]
NoWrite == [target |-> "none", channel |-> 0, index |-> 0, value |-> 0]

Min(a, b) == IF a < b THEN a ELSE b
Max(a, b) == IF a > b THEN a ELSE b

Zeros(n) == [k \in 1..n |-> 0]

\* Array.prototype.reverse on the values of one array
Reversed(arr) == [k \in 1..Len(arr) |-> arr[Len(arr) + 1 - k]]

\* the channel arrays of a buffer, read through the heap
ChannelValues(h, buf) == [j \in 1..buf.numberOfChannels |-> h[buf.data[j]]]

\* the buffers with c channels of n samples, as channel-by-channel samples
ChannelSets(c, n) == [1..c -> [1..n -> Samples]]

\* a new AudioBuffer whose channel arrays are appended to the heap
NewBuffer(h, chans, rate) ==
  [heap |-> h \o chans,
   buf  |-> [sampleRate |-> rate,
             numberOfChannels |-> Len(chans),
             length |-> IF Len(chans) = 0 THEN 0 ELSE Len(chans[1]),
             data |-> [j \in 1..Len(chans) |-> Len(h) + j]]]

\* ------------------------------------------------------ reverseAudioBuffer
getAudioContext(ctx) == IF ~ctx THEN TRUE ELSE ctx

\* context.createBuffer: zero-filled channels of the given shape
createBuffer(h, numberOfChannels, length, sampleRate) ==
  NewBuffer(h, [j \in 1..numberOfChannels |-> Zeros(length)], sampleRate)

\* buffer.getChannelData(i): the buffer's own storage, not a copy
getChannelDataOfFirstBuffer(buf, i) == i + 1
getChannelData(buf, i) == buf.data[i + 1]

\* Float32Array.from(source): a new array with the same elements
Float32ArrayFromShared(h, addr) == [heap |-> h, addr |-> addr]
Float32ArrayFrom(h, addr) == [heap |-> Append(h, h[addr]), addr |-> Len(h) + 1]

\* typedArray.reverse(): in place
reverseRotated(h, addr) ==
  [h EXCEPT ![addr] = IF Len(@) = 0 THEN @ ELSE Tail(@) \o <<Head(@)>>]
reverse(h, addr) == [h EXCEPT ![addr] = Reversed(@)]

\* buffer.copyToChannel(source, channelNumber)
copyToChannelSwapped(h, buf, source, channelNumber) ==
  [h EXCEPT ![buf.data[buf.numberOfChannels - channelNumber]] =
     [k \in 1..Len(@) |-> IF k <= Len(h[source]) THEN h[source][k] ELSE @[k]]]
copyToChannel(h, buf, source, channelNumber) ==
  [h EXCEPT ![buf.data[channelNumber + 1]] =
     [k \in 1..Len(@) |-> IF k <= Len(h[source]) THEN h[source][k] ELSE @[k]]]

\* one channel: Float32Array.from(channelData).reverse()
reversedChannelData(h, channelData) ==
  LET copied == Float32ArrayFrom(h, channelData)
  IN  [heap |-> reverse(copied.heap, copied.addr), addr |-> copied.addr]

\* the loop over the channels
RECURSIVE ReverseLoop(_, _, _, _)
ReverseLoop(h, decoded, target, i) ==
  IF i >= decoded.numberOfChannels THEN h
  ELSE LET r == reversedChannelData(h, getChannelData(decoded, i))
       IN  ReverseLoop(copyToChannel(r.heap, target, r.addr, i), decoded, target, i + 1)

\* the allocation of the result: shape taken from the decoded buffer
createReversedBufferFixedRate(h, decoded) ==
  createBuffer(h, decoded.numberOfChannels, decoded.length, 44100)
createReversedBuffer(h, decoded) ==
  createBuffer(h, decoded.numberOfChannels, decoded.length, decoded.sampleRate)

\* what follows a resolved decodeAudioData, up to the return
reverseDecoded(h, decoded) ==
  LET made == createReversedBuffer(h, decoded)
  IN  [heap |-> ReverseLoop(made.heap, decoded, made.buf, 0), buf |-> made.buf]

\* the catch block: log, then resolve with null
catchRethrows == "threw"
catchResult == "null"

\* ---------------------------------------------------- audioBufferToWavBlob
format == 1
bitDepth == 16
headerLength == 44

\* the strings written by writeString, as their char codes (str.charCodeAt)
RIFF == <<82, 73, 70, 70>>
WAVE == <<87, 65, 86, 69>>
fmt  == <<102, 109, 116, 32>>
data == <<100, 97, 116, 97>>

\* DataView setters; offsets count from 0, multi-byte values little-endian.
\* value \div 256^k % 256 is byte k of value modulo 2^32 (ToUint32).
setUint8(view, offset, value) == [view EXCEPT ![offset + 1] = value % 256]
setUint16(view, offset, value) ==
  [view EXCEPT ![offset + 1] = value % 256,
               ![offset + 2] = (value \div 256) % 256]
setUint32BigEndian(view, offset, value) ==
  [view EXCEPT ![offset + 1] = (value \div 16777216) % 256,
               ![offset + 2] = (value \div 65536) % 256,
               ![offset + 3] = (value \div 256) % 256,
               ![offset + 4] = value % 256]
setUint32(view, offset, value) ==
  [view EXCEPT ![offset + 1] = value % 256,
               ![offset + 2] = (value \div 256) % 256,
               ![offset + 3] = (value \div 65536) % 256,
               ![offset + 4] = (value \div 16777216) % 256]

\* ToInt16 of the number num / SampleDen: drop the fraction (toward zero),
\* then reduce modulo 2^16
truncate(num) == IF num >= 0 THEN num \div SampleDen ELSE -((-num) \div SampleDen)
setInt16(view, offset, num) == setUint16(view, offset, truncate(num) % 65536)

RECURSIVE writeStringFrom(_, _, _, _)
writeStringFrom(view, offset, str, i) ==
  IF i >= Len(str) THEN view
  ELSE writeStringFrom(setUint8(view, offset + i, str[i + 1]), offset, str, i + 1)
writeString(view, offset, str) == writeStringFrom(view, offset, str, 0)

\* the two nested loops of interleave, with the running offset
RECURSIVE interleaveChannelMajor(_, _, _, _, _, _, _)
interleaveChannelMajor(result, channels, numSamples, numChannels, i, j, offset) ==
  IF j >= numChannels THEN result
  ELSE IF i >= numSamples
       THEN interleaveChannelMajor(result, channels, numSamples, numChannels, 0, j + 1, offset)
       ELSE interleaveChannelMajor([result EXCEPT ![offset + 1] = channels[j + 1][i + 1]],
                                   channels, numSamples, numChannels, i + 1, j, offset + 1)
RECURSIVE interleaveFrom(_, _, _, _, _, _, _)
interleaveFrom(result, channels, numSamples, numChannels, i, j, offset) ==
  IF i >= numSamples THEN result
  ELSE IF j >= numChannels
       THEN interleaveFrom(result, channels, numSamples, numChannels, i + 1, 0, offset)
       ELSE interleaveFrom([result EXCEPT ![offset + 1] = channels[j + 1][i + 1]],
                           channels, numSamples, numChannels, i, j + 1, offset + 1)

interleave(h, buffer) ==
  LET numChannels == buffer.numberOfChannels
      numSamples == buffer.length
      channels == [j \in 1..numChannels |-> h[getChannelData(buffer, j - 1)]]
  IN  interleaveFrom(Zeros(numSamples * numChannels), channels,
                     numSamples, numChannels, 0, 0, 0)

\* Math.max(-1, Math.min(1, input[i]))
clampNothing(n) == n
clamp(n) == Max(-SampleDen, Min(SampleDen, n))

\* s < 0 ? s * 0x8000 : s * 0x7FFF, as a numerator over SampleDen
scaleBothPositive(s) == s * 32767
scale(s) == IF s < 0 THEN s * 32768 ELSE s * 32767

RECURSIVE floatTo16BitPCMFrom(_, _, _, _)
floatTo16BitPCMFrom(output, offset, input, i) ==
  IF i >= Len(input) THEN output
  ELSE LET s == clamp(input[i + 1])
       IN  floatTo16BitPCMFrom(setInt16(output, offset, scale(s)), offset + 2, input, i + 1)
floatTo16BitPCM(output, offset, input) == floatTo16BitPCMFrom(output, offset, input, 0)

\* the size of the ArrayBuffer
bufferLengthPadded(dataLength) == headerLength + dataLength + 2
bufferLength(dataLength) == headerLength + dataLength

audioBufferToWavBlob(h, buffer) ==
  LET numChannels == buffer.numberOfChannels
      sampleRate == buffer.sampleRate
      interleaved == interleave(h, buffer)
      dataLength == Len(interleaved) * (bitDepth \div 8)
      v0 == Zeros(bufferLength(dataLength))
      v1 == writeString(v0, 0, RIFF)
      v2 == setUint32(v1, 4, 36 + dataLength)
      v3 == writeString(v2, 8, WAVE)
      v4 == writeString(v3, 12, fmt)
      v5 == setUint32(v4, 16, 16)
      v6 == setUint16(v5, 20, format)
      v7 == setUint16(v6, 22, numChannels)
      v8 == setUint32(v7, 24, sampleRate)
      v9 == setUint32(v8, 28, sampleRate * numChannels * (bitDepth \div 8))
      v10 == setUint16(v9, 32, numChannels * (bitDepth \div 8))
      v11 == setUint16(v10, 34, bitDepth)
      v12 == writeString(v11, 36, data)
      v13 == setUint32(v12, 40, dataLength)
      view == floatTo16BitPCM(v13, headerLength, interleaved)
  IN  [bytes |-> view, type |-> "audio/wav"]

\* ------------------------------------------------------------ the call
\* no concurrent call has been made
\* no Recorder is mounted
NoRecorder ==
  [instance |-> 0, target |-> "none", status |-> "idle", recordingTime |-> 0,
   mediaRecorderRef |-> 0, timerIntervalRef |-> 0, prev |-> "none", by |-> "none"]
NoRequests == [original |-> 0, imitation |-> 0]
NotSettled == [target |-> "none", outcome |-> "none", before |-> "none"]

\* the application as first rendered, nothing recorded yet
AppInitial ==
  /\ step = "IDLE"
  /\ originalAudioBlob = FALSE
  /\ reversedOriginalAudioUrl = FALSE
  /\ reversedImitationAudioUrl = FALSE
  /\ error = FALSE
  /\ permissionPending = 0
  /\ requests = NoRequests
  /\ rec = NoRecorder
  /\ pendingStarts = <<>>
  /\ streams = <<>>
  /\ recorders = <<>>
  /\ timers = {}
  /\ instances = 0
  /\ flows = 0
  /\ starts = 0
  /\ onStops = <<>>
  /\ failedFlow = 0
  /\ lastSettled = NotSettled

NoCalls == <<>>
RestInit == calls = NoCalls /\ AppInitial

Init ==
  /\ audioContext = FALSE
  /\ pc = "idle"
  /\ heap = <<>>
  /\ audioBuffer = NoBuffer
  /\ decodedSamples = <<>>
  /\ rejection = "none"
  /\ returned = "pending"
  /\ reversedBuffer = NoBuffer
  /\ wav = NoBlob
  /\ lastWrite = NoWrite
  /\ RestInit

\* reverseAudioBuffer(audioBlob) up to its first await
Call ==
  /\ pc = "idle"
  /\ audioContext' = getAudioContext(audioContext)
  /\ pc' = "arrayBuffer"
  /\ UNCHANGED <<heap, audioBuffer, decodedSamples, rejection, returned,
                 reversedBuffer, wav, lastWrite>>
  /\ UNCHANGED restVars

\* audioBlob.arrayBuffer() resolves: decodeAudioData is started
ArrayBufferResolved ==
  /\ pc = "arrayBuffer"
  /\ pc' = "decodeAudioData"
  /\ UNCHANGED <<audioContext, heap, audioBuffer, decodedSamples, rejection,
                 returned, reversedBuffer, wav, lastWrite>>
  /\ UNCHANGED restVars

\* audioBlob.arrayBuffer() rejects: the catch block runs
ArrayBufferRejected ==
  /\ pc = "arrayBuffer"
  /\ rejection' = "arrayBuffer"
  /\ returned' = catchResult
  /\ pc' = "returned"
  /\ UNCHANGED <<audioContext, heap, audioBuffer, decodedSamples,
                 reversedBuffer, wav, lastWrite>>
  /\ UNCHANGED restVars

\* decodeAudioData rejects: the catch block runs
DecodeRejected ==
  /\ pc = "decodeAudioData"
  /\ rejection' = "decodeAudioData"
  /\ returned' = catchResult
  /\ pc' = "returned"
  /\ UNCHANGED <<audioContext, heap, audioBuffer, decodedSamples,
                 reversedBuffer, wav, lastWrite>>
  /\ UNCHANGED restVars

\* decodeAudioData resolves with a buffer (an AudioBuffer has at least one
\* channel and one frame); the rest of the function runs to its return
DecodeResolved ==
  /\ pc = "decodeAudioData"
  /\ \E c \in 1..MaxChannels, rate \in SampleRates :
       \E n \in 1..(MaxTotal \div c) :
         \E chans \in ChannelSets(c, n) :
           LET dec == NewBuffer(heap, chans, rate)
               rev == reverseDecoded(dec.heap, dec.buf)
           IN  /\ audioBuffer' = dec.buf
               /\ decodedSamples' = chans
               /\ heap' = rev.heap
               /\ reversedBuffer' = rev.buf
  /\ returned' = "buffer"
  /\ pc' = "returned"
  /\ UNCHANGED <<audioContext, rejection, wav, lastWrite>>
  /\ UNCHANGED restVars

\* a holder of a channel array (the caller holds the returned buffer, the
\* decoder's side may still hold the decoded one) stores one sample into it
WriteChannel ==
  /\ pc = "returned"
  /\ returned = "buffer"
  /\ \E target \in {"decoded", "returned"}, v \in WriteValues :
       LET buf == IF target = "decoded" THEN audioBuffer ELSE reversedBuffer
       IN  \E j \in 1..buf.numberOfChannels, k \in 1..buf.length :
             /\ heap[buf.data[j]][k] # v
             /\ heap' = [heap EXCEPT ![buf.data[j]][k] = v]
             /\ lastWrite' = [target |-> target, channel |-> j, index |-> k, value |-> v]
  /\ pc' = "written"
  /\ UNCHANGED <<audioContext, audioBuffer, decodedSamples, rejection,
                 returned, reversedBuffer, wav>>
  /\ UNCHANGED restVars

\* the application hands a returned buffer to audioBufferToWavBlob
EncodeReturned ==
  /\ pc = "returned"
  /\ returned = "buffer"
  /\ wav' = audioBufferToWavBlob(heap, reversedBuffer)
  /\ pc' = "encoded"
  /\ UNCHANGED <<audioContext, heap, audioBuffer, decodedSamples, rejection,
                 returned, reversedBuffer, lastWrite>>
  /\ UNCHANGED restVars

Next ==
  \/ Call
  \/ ArrayBufferResolved
  \/ ArrayBufferRejected
  \/ DecodeRejected
  \/ DecodeResolved
  \/ WriteChannel
  \/ EncodeReturned

Spec == Init /\ [][Next]_vars

\* ------------------------------------- audioBufferToWavBlob on its own
\* the encoder applied to any well-formed buffer: at least one channel, a
\* sample rate, channels of one length (length 0 included)
WavInit ==
  /\ audioContext = FALSE
  /\ \E c \in 1..MaxChannels, rate \in SampleRates :
       \E n \in 0..(MaxTotal \div c) :
         \E chans \in ChannelSets(c, n) :
           LET made == NewBuffer(<<>>, chans, rate)
           IN  /\ heap = made.heap
               /\ reversedBuffer = made.buf
  /\ pc = "returned"
  /\ returned = "buffer"
  /\ audioBuffer = NoBuffer
  /\ decodedSamples = <<>>
  /\ rejection = "none"
  /\ wav = NoBlob
  /\ lastWrite = NoWrite
  /\ RestInit

WavNext == EncodeReturned

SpecWav == WavInit /\ [][WavNext]_vars

\* ------------------------------------------- the reversal of one channel
\* Float32Array.from(channelData).reverse() applied to a channel, and then
\* to its own result
RevInit ==
  /\ audioContext = FALSE
  /\ \E n \in 0..MaxTotal : \E channel \in [1..n -> Samples] :
       /\ heap = <<channel>>
       /\ decodedSamples = <<channel>>
  /\ pc = "channel"
  /\ returned = "pending"
  /\ audioBuffer = NoBuffer
  /\ reversedBuffer = NoBuffer
  /\ rejection = "none"
  /\ wav = NoBlob
  /\ lastWrite = NoWrite
  /\ RestInit

ReverseChannel ==
  /\ pc \in {"channel", "reversedOnce"}
  /\ heap' = reversedChannelData(heap, Len(heap)).heap
  /\ pc' = IF pc = "channel" THEN "reversedOnce" ELSE "reversedTwice"
  /\ UNCHANGED <<audioContext, audioBuffer, decodedSamples, rejection,
                 returned, reversedBuffer, wav, lastWrite>>
  /\ UNCHANGED restVars

RevNext == ReverseChannel

SpecRev == RevInit /\ [][RevNext]_vars

\* ---------------------------------------------------- concurrent calls
\* reverseAudioBuffer called for several recordings; the calls share the
\* module-level context and the storage, and interleave at their awaits
NumCalls == 2
Calls == 1..NumCalls

\* what decodeAudioData can resolve with
Recordings ==
  { [rate |-> 44100, channels |-> <<<<1, -3>>>>],
    [rate |-> 44100, channels |-> <<<<0, 2, 3>>>>],
    [rate |-> 96000, channels |-> <<<<-3, 0>>, <<2, 1>>>>],
    [rate |-> 96000, channels |-> <<<<-1>>, <<3>>>>] }

IdleCall ==
  [pc |-> "idle", audioBuffer |-> NoBuffer, decodedSamples |-> <<>>,
   rejection |-> "none", returned |-> "pending", reversedBuffer |-> NoBuffer,
   wav |-> NoBlob]

ParInit ==
  /\ audioContext = FALSE
  /\ heap = <<>>
  /\ calls = [c \in Calls |-> IdleCall]
  /\ pc = "idle"
  /\ audioBuffer = NoBuffer
  /\ decodedSamples = <<>>
  /\ rejection = "none"
  /\ returned = "pending"
  /\ reversedBuffer = NoBuffer
  /\ wav = NoBlob
  /\ lastWrite = NoWrite
  /\ AppInitial

\* reverseAudioBuffer(audioBlob) up to its first await
ParCall(c) ==
  /\ calls[c].pc = "idle"
  /\ audioContext' = getAudioContext(audioContext)
  /\ calls' = [calls EXCEPT ![c].pc = "arrayBuffer"]
  /\ UNCHANGED <<heap, callVars, appVars>>

ParArrayBufferResolved(c) ==
  /\ calls[c].pc = "arrayBuffer"
  /\ calls' = [calls EXCEPT ![c].pc = "decodeAudioData"]
  /\ UNCHANGED <<audioContext, heap, callVars, appVars>>

ParArrayBufferRejected(c) ==
  /\ calls[c].pc = "arrayBuffer"
  /\ calls' = [calls EXCEPT ![c].rejection = "arrayBuffer",
                            ![c].returned = catchResult,
                            ![c].pc = "returned"]
  /\ UNCHANGED <<audioContext, heap, callVars, appVars>>

ParDecodeRejected(c) ==
  /\ calls[c].pc = "decodeAudioData"
  /\ calls' = [calls EXCEPT ![c].rejection = "decodeAudioData",
                            ![c].returned = catchResult,
                            ![c].pc = "returned"]
  /\ UNCHANGED <<audioContext, heap, callVars, appVars>>

\* decodeAudioData resolves; the rest of the function runs to its return
ParDecodeResolved(c) ==
  /\ calls[c].pc = "decodeAudioData"
  /\ \E r \in Recordings :
       LET dec == NewBuffer(heap, r.channels, r.rate)
           rev == reverseDecoded(dec.heap, dec.buf)
       IN  /\ heap' = rev.heap
           /\ calls' = [calls EXCEPT ![c].audioBuffer = dec.buf,
                                     ![c].decodedSamples = r.channels,
                                     ![c].reversedBuffer = rev.buf,
                                     ![c].returned = "buffer",
                                     ![c].pc = "returned"]
  /\ UNCHANGED <<audioContext, callVars, appVars>>

\* the caller resumes with the buffer and hands it to audioBufferToWavBlob
ParEncode(c) ==
  /\ calls[c].pc = "returned"
  /\ calls[c].returned = "buffer"
  /\ calls' = [calls EXCEPT ![c].wav = audioBufferToWavBlob(heap, calls[c].reversedBuffer),
                            ![c].pc = "encoded"]
  /\ UNCHANGED <<audioContext, heap, callVars, appVars>>

ParNext ==
  \/ \E c \in Calls : ParCall(c)
  \/ \E c \in Calls : ParArrayBufferResolved(c)
  \/ \E c \in Calls : ParArrayBufferRejected(c)
  \/ \E c \in Calls : ParDecodeRejected(c)
  \/ \E c \in Calls : ParDecodeResolved(c)
  \/ \E c \in Calls : ParEncode(c)

SpecPar == ParInit /\ [][ParNext]_vars

\* ------------------------------------------------- App and Recorder
MAX_DURATION == 30
\* startRecording calls and handleStart calls that are followed
MaxStarts == 2
MaxFlows == 2

RecordingSteps == {"RECORDING_ORIGINAL", "RECORDING_IMITATION"}
PlayingSteps == {"PLAYING_REVERSED_ORIGINAL", "PLAYING_REVERSED_IMITATION"}

\* The Recorder and the media objects, as one value w:
\*   [rec, streams, recorders, timers]
World == [rec |-> rec, streams |-> streams, recorders |-> recorders, timers |-> timers]

\* the Recorder as mounted: useState('idle'), useState(0), useRef(null)
mounted(instance, target) ==
  [instance |-> instance, target |-> target, status |-> "idle", recordingTime |-> 0,
   mediaRecorderRef |-> 0, timerIntervalRef |-> 0, prev |-> "none", by |-> "none"]

\* setStatus(next) by one of the Recorder's functions; setting the value
\* status has changes nothing
setStatus(w, next, by) ==
  IF next = w.rec.status THEN w
  ELSE [w EXCEPT !.rec.prev = w.rec.status, !.rec.status = next, !.rec.by = by]

\* the id window.setInterval returns: one no live interval has
newTimerId(w) ==
  CHOOSE id \in 1..(Cardinality(w.timers) + 1) : \A t \in w.timers : t.id # id

\* window.setInterval in startTimer, called by the Recorder instance given:
\* the id goes to that instance's timerIntervalRef, whatever it held
startTimer(w, instance) ==
  LET id == newTimerId(w)
      set == [w EXCEPT !.timers = @ \cup {[id |-> id, instance |-> instance]}]
  IN  IF instance = w.rec.instance THEN [set EXCEPT !.rec.timerIntervalRef = id] ELSE set

stopTimer(w) ==
  IF w.rec.timerIntervalRef # 0
  THEN [w EXCEPT !.timers = {t \in @ : t.id # w.rec.timerIntervalRef},
                 !.rec.timerIntervalRef = 0]
  ELSE w

\* stream.getTracks().forEach(track => track.stop()); a MediaRecorder whose
\* stream has ended stops and fires its stop event
stopTracks(w, s) ==
  [w EXCEPT !.streams[s].live = FALSE,
            !.recorders = [r \in 1..Len(@) |->
               IF @[r].stream = s /\ @[r].state # "inactive"
               THEN [@[r] EXCEPT !.state = "inactive", !.stopping = TRUE]
               ELSE @[r]]]

\* the status stopRecording reads when the interval callback calls it:
\* startTimer is memoized with no dependencies, so it keeps the
\* stopRecording of the first render, which closed over useState('idle')
timerSeesStatus(w) == "idle"

\* stopRecording, with the status its closure holds.  MediaRecorder.stop()
\* on an inactive recorder throws and the handler ends there.
stopRecording(w, status) ==
  IF w.rec.mediaRecorderRef # 0 /\ status # "idle" /\ status # "stopped"
  THEN IF w.recorders[w.rec.mediaRecorderRef].state = "inactive"
       THEN w
       ELSE stopTimer(setStatus(
              [w EXCEPT !.recorders[w.rec.mediaRecorderRef].state = "inactive",
                        !.recorders[w.rec.mediaRecorderRef].stopping = TRUE],
              "stopped", "stopRecording"))
  ELSE w

\* pauseRecording; MediaRecorder.pause() on an inactive recorder throws
pauseRecording(w) ==
  IF w.rec.mediaRecorderRef # 0 /\ w.rec.status = "recording"
  THEN IF w.recorders[w.rec.mediaRecorderRef].state = "inactive"
       THEN w
       ELSE stopTimer(setStatus(
              [w EXCEPT !.recorders[w.rec.mediaRecorderRef].state = "paused"],
              "paused", "pauseRecording"))
  ELSE w

\* resumeRecording; MediaRecorder.resume() on an inactive recorder throws
resumeRecording(w) ==
  IF w.rec.mediaRecorderRef # 0 /\ w.rec.status = "paused"
  THEN IF w.recorders[w.rec.mediaRecorderRef].state = "inactive"
       THEN w
       ELSE startTimer(setStatus(
              [w EXCEPT !.recorders[w.rec.mediaRecorderRef].state = "recording"],
              "recording", "resumeRecording"), w.rec.instance)
  ELSE w

\* startRecording after getUserMedia resolved, for the call p = [instance,
\* target]: the state and refs it sets are those of the instance that made
\* the call; for an instance no longer mounted only the media objects remain
startRecordingResumed(w, p) ==
  LET s == Len(w.streams) + 1
      r == Len(w.recorders) + 1
      made == [w EXCEPT
                 !.streams = Append(@, [origin |-> "startRecording", live |-> TRUE]),
                 !.recorders = Append(@, [stream |-> s, state |-> "recording",
                                          stopping |-> FALSE,
                                          instance |-> p.instance,
                                          target |-> p.target])]
      held == IF p.instance = w.rec.instance
              THEN setStatus([made EXCEPT !.rec.mediaRecorderRef = r],
                             "recording", "startRecording")
              ELSE made
  IN  startTimer(held, p.instance)

\* the interval callback of a timer of the mounted Recorder
tick(w) ==
  IF w.rec.recordingTime >= MAX_DURATION - 1
  THEN [stopRecording(w, timerSeesStatus(w)) EXCEPT !.rec.recordingTime = MAX_DURATION]
  ELSE [w EXCEPT !.rec.recordingTime = @ + 1]

\* the effect cleanup on unmount
unmounted(w) ==
  LET t == stopTimer(w)
      u == IF t.rec.mediaRecorderRef # 0
           THEN stopTracks(t, t.recorders[t.rec.mediaRecorderRef].stream)
           ELSE t
  IN  [u EXCEPT !.rec = NoRecorder]

\* App renders the step: a Recorder is mounted for the recording steps and
\* unmounted when the step leaves them
rendered(w, from, to, instance) ==
  LET left == IF from \in RecordingSteps /\ to # from THEN unmounted(w) ELSE w
  IN  IF to \in RecordingSteps /\ to # from
      THEN [left EXCEPT !.rec = mounted(instance,
                                 IF to = "RECORDING_ORIGINAL" THEN "original" ELSE "imitation")]
      ELSE left

\* ---- App: the state its handlers set, as one value a
App ==
  [step |-> step, originalAudioBlob |-> originalAudioBlob,
   reversedOriginalAudioUrl |-> reversedOriginalAudioUrl,
   reversedImitationAudioUrl |-> reversedImitationAudioUrl, error |-> error]

\* processAndReverseAudio after the await, reversedBuffer truthy
succeededWithoutUrl(a, target) ==
  IF target = "original"
  THEN [a EXCEPT !.step = "PLAYING_REVERSED_ORIGINAL"]
  ELSE [a EXCEPT !.step = "PLAYING_REVERSED_IMITATION"]
succeeded(a, target) ==
  IF target = "original"
  THEN [a EXCEPT !.reversedOriginalAudioUrl = TRUE,
                 !.step = "PLAYING_REVERSED_ORIGINAL"]
  ELSE [a EXCEPT !.reversedImitationAudioUrl = TRUE,
                 !.step = "PLAYING_REVERSED_IMITATION"]

\* processAndReverseAudio after the await, reversedBuffer null
failedSilently(a) == [a EXCEPT !.step = "IDLE"]
failed(a) == [a EXCEPT !.error = TRUE, !.step = "IDLE"]

resetApp(a) ==
  [a EXCEPT !.step = "IDLE", !.originalAudioBlob = FALSE,
            !.reversedOriginalAudioUrl = FALSE,
            !.reversedImitationAudioUrl = FALSE, !.error = FALSE]

ProcessingStep(target) ==
  IF target = "original" THEN "PROCESSING_ORIGINAL" ELSE "PROCESSING_IMITATION"

\* the next state of App's useState values, and of the Recorder after React
\* has rendered the new step
Commit(a, w) ==
  LET r == rendered(w, step, a.step, instances + 1)
  IN  /\ step' = a.step
      /\ originalAudioBlob' = a.originalAudioBlob
      /\ reversedOriginalAudioUrl' = a.reversedOriginalAudioUrl
      /\ reversedImitationAudioUrl' = a.reversedImitationAudioUrl
      /\ error' = a.error
      /\ rec' = r.rec
      /\ streams' = r.streams
      /\ recorders' = r.recorders
      /\ timers' = r.timers
      /\ instances' = IF a.step \in RecordingSteps /\ a.step # step
                      THEN instances + 1 ELSE instances

pipelineVars == <<audioContext, heap, callVars, parVars>>

AppInit == Init

\* handleStart up to its await
HandleStart ==
  /\ step = "IDLE"
  /\ flows < MaxFlows
  /\ Commit([App EXCEPT !.step = "REQUESTING_PERMISSION"], World)
  /\ permissionPending' = permissionPending + 1
  /\ flows' = flows + 1
  /\ lastSettled' = NotSettled
  /\ UNCHANGED <<requests, pendingStarts, starts, onStops, failedFlow, pipelineVars>>

\* handleStart: getUserMedia resolved with a stream, which is dropped
PermissionGranted ==
  /\ permissionPending > 0
  /\ permissionPending' = permissionPending - 1
  /\ Commit([App EXCEPT !.step = "RECORDING_ORIGINAL"],
            [World EXCEPT !.streams = Append(@, [origin |-> "handleStart", live |-> TRUE])])
  /\ lastSettled' = NotSettled
  /\ UNCHANGED <<requests, pendingStarts, flows, starts, onStops, failedFlow, pipelineVars>>

\* handleStart: getUserMedia rejected
PermissionDenied ==
  /\ permissionPending > 0
  /\ permissionPending' = permissionPending - 1
  /\ Commit([App EXCEPT !.step = "PERMISSION_DENIED"], World)
  /\ lastSettled' = NotSettled
  /\ UNCHANGED <<requests, pendingStarts, flows, starts, onStops, failedFlow, pipelineVars>>

\* "Try Again" and "Start Over"
ResetApp ==
  /\ step \in {"PERMISSION_DENIED", "PLAYING_REVERSED_IMITATION"}
  /\ Commit(resetApp(App), World)
  /\ lastSettled' = NotSettled
  /\ UNCHANGED <<permissionPending, requests, pendingStarts, flows, starts, onStops,
                 failedFlow, pipelineVars>>

\* "I'm Ready to Imitate!"
ReadyToImitate ==
  /\ step = "PLAYING_REVERSED_ORIGINAL"
  /\ Commit([App EXCEPT !.step = "RECORDING_IMITATION"], World)
  /\ lastSettled' = NotSettled
  /\ UNCHANGED <<permissionPending, requests, pendingStarts, flows, starts, onStops,
                 failedFlow, pipelineVars>>

\* the Start button, shown while status is 'idle': startRecording up to its await
StartRecordingClick ==
  /\ rec.instance # 0
  /\ rec.status = "idle"
  /\ starts < MaxStarts
  /\ starts' = starts + 1
  /\ pendingStarts' = Append(pendingStarts, [instance |-> rec.instance, target |-> rec.target])
  /\ lastSettled' = NotSettled
  /\ UNCHANGED <<step, originalAudioBlob, reversedOriginalAudioUrl,
                 reversedImitationAudioUrl, error, permissionPending, requests,
                 rec, streams, recorders, timers, instances, flows, onStops,
                 failedFlow, pipelineVars>>

Without(seq, i) == SubSeq(seq, 1, i - 1) \o SubSeq(seq, i + 1, Len(seq))

\* startRecording: getUserMedia resolved
StartRecordingResolved(i) ==
  /\ pendingStarts' = Without(pendingStarts, i)
  /\ Commit(App, startRecordingResumed(World, pendingStarts[i]))
  /\ lastSettled' = NotSettled
  /\ UNCHANGED <<permissionPending, requests, flows, starts, onStops, failedFlow,
                 pipelineVars>>

\* startRecording: getUserMedia rejected, the catch logs
StartRecordingRejected(i) ==
  /\ pendingStarts' = Without(pendingStarts, i)
  /\ lastSettled' = NotSettled
  /\ UNCHANGED <<step, originalAudioBlob, reversedOriginalAudioUrl,
                 reversedImitationAudioUrl, error, permissionPending, requests,
                 rec, streams, recorders, timers, instances, flows, starts, onStops,
                 failedFlow, pipelineVars>>

\* the Pause button, shown while status is 'recording'
PauseClick ==
  /\ rec.instance # 0
  /\ rec.status = "recording"
  /\ Commit(App, pauseRecording(World))
  /\ lastSettled' = NotSettled
  /\ UNCHANGED <<permissionPending, requests, pendingStarts, flows, starts, onStops,
                 failedFlow, pipelineVars>>

\* the Resume button, shown while status is 'paused'
ResumeClick ==
  /\ rec.instance # 0
  /\ rec.status = "paused"
  /\ Commit(App, resumeRecording(World))
  /\ lastSettled' = NotSettled
  /\ UNCHANGED <<permissionPending, requests, pendingStarts, flows, starts, onStops,
                 failedFlow, pipelineVars>>

\* the Stop button, shown while status is 'recording' or 'paused': the
\* stopRecording of the current render
StopClick ==
  /\ rec.instance # 0
  /\ rec.status \in {"recording", "paused"}
  /\ Commit(App, stopRecording(World, rec.status))
  /\ lastSettled' = NotSettled
  /\ UNCHANGED <<permissionPending, requests, pendingStarts, flows, starts, onStops,
                 failedFlow, pipelineVars>>

\* the interval callback of a live timer of the mounted Recorder, while it
\* still changes something
TimerTick(t) ==
  /\ t.instance = rec.instance
  /\ rec.recordingTime < MAX_DURATION
  /\ Commit(App, tick(World))
  /\ lastSettled' = NotSettled
  /\ UNCHANGED <<permissionPending, requests, pendingStarts, flows, starts, onStops,
                 failedFlow, pipelineVars>>

\* MediaRecorder's stop event: onstop delivers the blob to onStop, which is
\* handleOriginalRecordingComplete or handleImitationRecordingComplete and
\* runs processAndReverseAudio up to its await; then the stream is released
RecorderStopEvent(r) ==
  LET m == recorders[r]
      delivered == [World EXCEPT !.recorders[r].stopping = FALSE]
  IN  /\ m.stopping
      /\ onStops' = Append(onStops,
                      [instance |-> m.instance,
                       status |-> IF m.instance = rec.instance THEN rec.status
                                  ELSE "unmounted"])
      /\ requests' = [requests EXCEPT ![m.target] = @ + 1]
      /\ Commit([App EXCEPT !.step = ProcessingStep(m.target),
                            !.originalAudioBlob = (m.target = "original") \/ @],
                stopTracks(delivered, m.stream))
      /\ lastSettled' = NotSettled
      /\ UNCHANGED <<permissionPending, pendingStarts, flows, starts, failedFlow,
                     pipelineVars>>

\* processAndReverseAudio after its await: reverseAudioBuffer returned a
\* buffer, or what its catch returns
ProcessSettled(target, outcome) ==
  /\ requests[target] > 0
  /\ requests' = [requests EXCEPT ![target] = @ - 1]
  /\ Commit(IF outcome = catchResult THEN failed(App) ELSE succeeded(App, target), World)
  /\ failedFlow' = IF outcome = catchResult THEN flows ELSE failedFlow
  /\ lastSettled' = [target |-> target, outcome |-> outcome, before |-> App]
  /\ UNCHANGED <<permissionPending, pendingStarts, flows, starts, onStops, pipelineVars>>

AppNext ==
  \/ HandleStart
  \/ PermissionGranted
  \/ PermissionDenied
  \/ ResetApp
  \/ ReadyToImitate
  \/ StartRecordingClick
  \/ \E i \in 1..Len(pendingStarts) : StartRecordingResolved(i)
  \/ \E i \in 1..Len(pendingStarts) : StartRecordingRejected(i)
  \/ PauseClick
  \/ ResumeClick
  \/ StopClick
  \/ \E t \in timers : TimerTick(t)
  \/ \E r \in 1..Len(recorders) : RecorderStopEvent(r)
  \/ \E target \in {"original", "imitation"}, outcome \in {"buffer", catchResult} :
       ProcessSettled(target, outcome)

SpecApp == AppInit /\ [][AppNext]_vars


\* ================================================================ claims
\* helpers of the formulas below
Palindrome(arr) == arr = Reversed(arr)
AddressSet(buf) == {buf.data[j] : j \in 1..buf.numberOfChannels}

\* C1: when decodeAudioData resolves with C channels of N samples, the
\* returned buffer has C channels of N samples and, for every channel j and
\* every index i, output[j][i] = decoded[j][N-1-i]: same channel order, each
\* channel exactly reversed, every value unchanged.
C1_ExactReverse ==
  (returned = "buffer" /\ lastWrite.target = "none") =>
    /\ reversedBuffer.numberOfChannels = Len(decodedSamples)
    /\ \A j \in 1..Len(decodedSamples) :
         LET N == Len(decodedSamples[j])
             out == heap[reversedBuffer.data[j]]
         IN  /\ Len(out) = N
             /\ \A i \in 0..(N - 1) : out[i + 1] = decodedSamples[j][(N - 1 - i) + 1]

\* a returned stereo buffer whose channels differ, are no palindromes and
\* hold a sample outside [-1, 1]
C1_Witness ==
  /\ returned = "buffer"
  /\ lastWrite.target = "none"
  /\ Len(decodedSamples) = 2
  /\ decodedSamples[1] # decodedSamples[2]
  /\ ~Palindrome(decodedSamples[1])
  /\ ~Palindrome(decodedSamples[2])
  /\ \E k \in 1..Len(decodedSamples[1]) : decodedSamples[1][k] > SampleDen

C7_DecodedUntouched ==
  (returned = "buffer") =>
    /\ AddressSet(reversedBuffer) \cap AddressSet(audioBuffer) = {}
    /\ Cardinality(AddressSet(reversedBuffer)) = reversedBuffer.numberOfChannels
    /\ (lastWrite.target # "decoded") =>
         ChannelValues(heap, audioBuffer) = decodedSamples
    /\ (lastWrite.target # "returned") =>
         ChannelValues(heap, reversedBuffer) =
           [j \in 1..Len(decodedSamples) |-> Reversed(decodedSamples[j])]
    /\ (lastWrite.target = "returned") =>
         heap[reversedBuffer.data[lastWrite.channel]][lastWrite.index] = lastWrite.value
    /\ (lastWrite.target = "decoded") =>
         heap[audioBuffer.data[lastWrite.channel]][lastWrite.index] = lastWrite.value

\* a store into a returned channel whose decoded channel is no palindrome
C7_Witness ==
  /\ returned = "buffer"
  /\ lastWrite.target = "returned"
  /\ ~Palindrome(decodedSamples[lastWrite.channel])
  /\ Len(decodedSamples) = 2

\* C8: on success the returned buffer has the decoded buffer's sampleRate,
\* numberOfChannels and length, and each of its channels has that length.
C8_ShapePreserved ==
  (returned = "buffer") =>
    /\ reversedBuffer.sampleRate = audioBuffer.sampleRate
    /\ reversedBuffer.numberOfChannels = audioBuffer.numberOfChannels
    /\ reversedBuffer.length = audioBuffer.length
    /\ \A j \in 1..audioBuffer.numberOfChannels :
         Len(heap[reversedBuffer.data[j]]) = Len(decodedSamples[j])

C8_Witness ==
  /\ returned = "buffer"
  /\ audioBuffer.sampleRate = 96000
  /\ audioBuffer.numberOfChannels = 2
  /\ audioBuffer.length = 2
  /\ reversedBuffer.sampleRate = 96000

\* C10: reversing a channel twice gives back the original samples, for a
\* channel of any length, the empty and the one-sample channel included.
C10_Involution ==
  (pc = "reversedTwice") => heap[Len(heap)] = decodedSamples[1]

\* a channel of at least three samples that is no palindrome, reversed twice
C10_Witness ==
  /\ pc = "reversedTwice"
  /\ Len(decodedSamples[1]) >= 3
  /\ ~Palindrome(decodedSamples[1])
  /\ heap[2] # heap[1]

\* the empty channel reversed twice
C10_WitnessEmpty == pc = "reversedTwice" /\ decodedSamples[1] = <<>>

\* ---- the encoder's output, read back
U16At(bytes, offset) == bytes[offset + 1] + 256 * bytes[offset + 2]
U32At(bytes, offset) ==
  bytes[offset + 1] + 256 * bytes[offset + 2] + 65536 * bytes[offset + 3]
    + 16777216 * bytes[offset + 4]
I16At(bytes, offset) ==
  IF U16At(bytes, offset) >= 32768 THEN U16At(bytes, offset) - 65536
  ELSE U16At(bytes, offset)

\* the encoder's input: sample of frame i, channel j (both from 0)
InputSample(i, j) == heap[reversedBuffer.data[j + 1]][i + 1]
FrameCount == reversedBuffer.length
ChannelCount == reversedBuffer.numberOfChannels
\* the 16-bit value of payload sample k (from 0)
PayloadAt(k) == I16At(wav.bytes, 44 + 2 * k)

\* the number s / SampleDen limited to [-1, 1], as a numerator
Limited(s) == IF s > SampleDen THEN SampleDen ELSE IF s < -SampleDen THEN -SampleDen ELSE s
\* the full-scale factor of a limited sample
FullScale(s) == IF s < 0 THEN 32768 ELSE 32767
\* q is num / SampleDen with its fraction dropped (toward zero)
IsTruncationOf(q, num) ==
  IF num >= 0 THEN q * SampleDen <= num /\ num < (q + 1) * SampleDen
  ELSE q * SampleDen >= num /\ num > (q - 1) * SampleDen
\* num / SampleDen rounded to the nearest integer (halves up, as Math.round)
RoundNearest(num) == (2 * num + SampleDen) \div (2 * SampleDen)

\* the buffer of the spec's example: channel 0 = [1.0, -1.0], channel 1 = [0.5, 0.0]
ExampleBuffer ==
  /\ ChannelCount = 2
  /\ FrameCount = 2
  /\ \E half \in Samples :
       /\ 2 * half = SampleDen
       /\ ChannelValues(heap, reversedBuffer) = <<<<SampleDen, -SampleDen>>, <<half, 0>>>>

\* C2 as stated: every payload value is round(s * 32768) for s < 0 and
\* round(s * 32767) otherwise, s limited to [-1, 1], rounded to the nearest
\* integer; the samples [1.0, 0.5, -1.0, 0.0] are written as
\* [32767, 16384, -32768, 0].
C2_RoundsToNearest ==
  (pc = "encoded") =>
    /\ \A i \in 0..(FrameCount - 1), j \in 0..(ChannelCount - 1) :
         LET s == Limited(InputSample(i, j))
         IN  PayloadAt(i * ChannelCount + j) = RoundNearest(s * FullScale(s))
    /\ ExampleBuffer =>
         [k \in 1..4 |-> PayloadAt(k - 1)] = <<32767, 16384, -32768, 0>>

\* C2 amended: every payload value is s * 32768 for s < 0 and s * 32767
\* otherwise, s limited to [-1, 1], with the fraction dropped (truncated
\* toward zero, not rounded); the samples [1.0, 0.5, -1.0, 0.0] are written
\* as the little-endian 16-bit values [32767, 16383, -32768, 0].
C2_TruncatesTowardZero ==
  (pc = "encoded") =>
    /\ \A i \in 0..(FrameCount - 1), j \in 0..(ChannelCount - 1) :
         LET s == Limited(InputSample(i, j))
         IN  IsTruncationOf(PayloadAt(i * ChannelCount + j), s * FullScale(s))
    /\ ExampleBuffer =>
         /\ [k \in 1..4 |-> PayloadAt(k - 1)] = <<32767, 16383, -32768, 0>>
         /\ SubSeq(wav.bytes, 45, 52) = <<255, 127, 255, 63, 0, 128, 0, 0>>

\* the example buffer, encoded
C2_Witness == pc = "encoded" /\ ExampleBuffer

\* C3: the first 44 bytes are 'RIFF', u32 36+dataLength, 'WAVE', 'fmt ',
\* u32 16, u16 1, u16 channelCount, u32 sampleRate, u32 sampleRate *
\* channelCount * 2, u16 channelCount * 2, u16 16, 'data', u32 dataLength,
\* with dataLength = frameCount * channelCount * 2, integers little-endian.
C3_CanonicalHeader ==
  (pc = "encoded") =>
    LET b == wav.bytes
        dataLength == FrameCount * ChannelCount * 2
    IN  /\ Len(b) >= 44
        /\ \A k \in 1..Len(b) : b[k] \in 0..255
        /\ SubSeq(b, 1, 4) = <<82, 73, 70, 70>>
        /\ U32At(b, 4) = 36 + dataLength
        /\ SubSeq(b, 9, 12) = <<87, 65, 86, 69>>
        /\ SubSeq(b, 13, 16) = <<102, 109, 116, 32>>
        /\ U32At(b, 16) = 16
        /\ U16At(b, 20) = 1
        /\ U16At(b, 22) = ChannelCount
        /\ U32At(b, 24) = reversedBuffer.sampleRate
        /\ U32At(b, 28) = reversedBuffer.sampleRate * ChannelCount * 2
        /\ U16At(b, 32) = ChannelCount * 2
        /\ U16At(b, 34) = 16
        /\ SubSeq(b, 37, 40) = <<100, 97, 116, 97>>
        /\ U32At(b, 40) = dataLength

\* a stereo buffer of two frames at 96000 Hz, encoded
C3_Witness ==
  /\ pc = "encoded"
  /\ ChannelCount = 2
  /\ FrameCount = 2
  /\ reversedBuffer.sampleRate = 96000
  /\ SubSeq(wav.bytes, 25, 28) = <<0, 119, 1, 0>>

\* C4: interleave yields frameCount * channelCount samples with
\* channels[j][i] at index i * channelCount + j, and the payload holds the
\* 16-bit value of that sample at bytes 44 + 2 * (i * channelCount + j).
C4_FrameMajor ==
  (pc = "encoded") =>
    LET flat == interleave(heap, reversedBuffer)
    IN  /\ Len(flat) = FrameCount * ChannelCount
        /\ Len(wav.bytes) - 44 = 2 * Len(flat)
        /\ \A i \in 0..(FrameCount - 1), j \in 0..(ChannelCount - 1) :
             /\ flat[(i * ChannelCount + j) + 1] = InputSample(i, j)
             /\ PayloadAt(i * ChannelCount + j) = truncate(scale(clamp(InputSample(i, j))))

\* a stereo buffer of two frames whose four samples encode to four values
C4_Witness ==
  /\ pc = "encoded"
  /\ ChannelCount = 2
  /\ FrameCount = 2
  /\ Cardinality({PayloadAt(k) : k \in 0..3}) = 4

\* C5: the output has exactly 44 + frameCount * channelCount * 2 bytes; a
\* buffer of no frames gives 44 bytes with a data length field of 0.
C5_ExactLength ==
  (pc = "encoded") =>
    /\ Len(wav.bytes) = 44 + FrameCount * ChannelCount * 2
    /\ (FrameCount = 0) => (Len(wav.bytes) = 44 /\ U32At(wav.bytes, 40) = 0)

\* a buffer of no frames, encoded
C5_Witness == pc = "encoded" /\ FrameCount = 0 /\ ChannelCount = 2 /\ Len(wav.bytes) = 44

\* C9: the value handed to setInt16 is within [-32768, 32767], so the
\* 16-bit value stored is that value (no wrap-around); a sample above 1.0
\* is stored as 32767, a sample below -1.0 as -32768, and a stored value
\* never has the opposite sign of its sample.
C9_NoWrapAround ==
  (pc = "encoded") =>
    \A i \in 0..(FrameCount - 1), j \in 0..(ChannelCount - 1) :
      LET s == InputSample(i, j)
          handed == truncate(scale(clamp(s)))
          q == PayloadAt(i * ChannelCount + j)
      IN  /\ handed >= -32768 /\ handed <= 32767
          /\ q = handed
          /\ (s > SampleDen) => q = 32767
          /\ (s < -SampleDen) => q = -32768
          /\ (s = SampleDen) => q = 32767
          /\ (s = -SampleDen) => q = -32768
          /\ (s >= 0) => q >= 0
          /\ (s <= 0) => q <= 0

\* a buffer with a sample above 1.0 and one below -1.0, encoded
C9_Witness ==
  /\ pc = "encoded"
  /\ \E i \in 0..(FrameCount - 1), j \in 0..(ChannelCount - 1) :
       InputSample(i, j) > SampleDen /\ PayloadAt(i * ChannelCount + j) = 32767
  /\ \E i \in 0..(FrameCount - 1), j \in 0..(ChannelCount - 1) :
       InputSample(i, j) < -SampleDen /\ PayloadAt(i * ChannelCount + j) = -32768

\* the encoding of a call's own recording, reversed, with nothing else in storage
OwnWav(c) ==
  LET own == NewBuffer(<<>>,
                       [j \in 1..Len(calls[c].decodedSamples) |->
                          Reversed(calls[c].decodedSamples[j])],
                       calls[c].audioBuffer.sampleRate)
  IN  audioBufferToWavBlob(own.heap, own.buf)

\* C11: however reverseAudioBuffer calls interleave at their awaits, every
\* call that succeeds returns the reverse of the buffer its own decode
\* resolved with, in that buffer's shape, in storage no other call uses; its
\* decoded buffer is left as decoded, its Blob is the encoding of its own
\* reversed samples, and a call whose await rejected returns null.  All of
\* them use the one module-level context.
C11_NoInterference ==
  /\ \A c \in DOMAIN calls :
       /\ (calls[c].pc # "idle") => audioContext
       /\ (calls[c].rejection # "none") =>
            (calls[c].returned = "null" /\ calls[c].reversedBuffer = NoBuffer)
       /\ (calls[c].returned = "buffer") =>
            /\ calls[c].reversedBuffer.sampleRate = calls[c].audioBuffer.sampleRate
            /\ ChannelValues(heap, calls[c].audioBuffer) = calls[c].decodedSamples
            /\ ChannelValues(heap, calls[c].reversedBuffer) =
                 [j \in 1..Len(calls[c].decodedSamples) |->
                    Reversed(calls[c].decodedSamples[j])]
       /\ (calls[c].pc = "encoded") => calls[c].wav = OwnWav(c)
  /\ \A c, d \in DOMAIN calls :
       (c # d) =>
         (AddressSet(calls[c].audioBuffer) \cup AddressSet(calls[c].reversedBuffer))
           \cap (AddressSet(calls[d].audioBuffer) \cup AddressSet(calls[d].reversedBuffer)) = {}

\* two calls for different recordings, the second decoded first, both encoded
C11_Witness ==
  /\ DOMAIN calls = Calls
  /\ calls[1].pc = "encoded"
  /\ calls[2].pc = "encoded"
  /\ calls[1].decodedSamples # calls[2].decodedSamples
  /\ calls[2].audioBuffer.data[1] < calls[1].audioBuffer.data[1]


\* ---- App and Recorder (SpecApp)

\* C12: when reverseAudioBuffer reports failure for a recording, the
\* request that resumes leaves the failure message set and step at IDLE, the
\* step from which handleStart starts a flow (HandleStart's guard); that a
\* flow started after a failure reaches RECORDING_ORIGINAL again is
\* C12_Witness.
C12_FailureShownAndRetry ==
  lastSettled.outcome = catchResult =>
    /\ error = TRUE
    /\ step = "IDLE"
    /\ failedFlow = flows

\* a flow started with handleStart after a reported failure is recording
C12_Witness ==
  /\ failedFlow > 0
  /\ flows > failedFlow
  /\ step = "RECORDING_ORIGINAL"
  /\ rec.target = "original"

\* the MediaRecorder the mounted Recorder holds is recording or paused
HeldRecorderActive ==
  /\ rec.mediaRecorderRef # 0
  /\ recorders[rec.mediaRecorderRef].state # "inactive"

\* C13: a recording never continues past the 30-second limit: once the tick
\* that found recordingTime at MAX_DURATION - 1 has run, the MediaRecorder
\* is stopped, status is 'stopped' and the interval timer is cleared.
C13_StopsAtLimit ==
  rec.recordingTime = MAX_DURATION =>
    /\ rec.status = "stopped"
    /\ ~HeldRecorderActive
    /\ rec.timerIntervalRef = 0

PlayingStep(target) ==
  IF target = "original" THEN "PLAYING_REVERSED_ORIGINAL" ELSE "PLAYING_REVERSED_IMITATION"

ReversedUrl(a, target) ==
  IF target = "original" THEN a.reversedOriginalAudioUrl ELSE a.reversedImitationAudioUrl

OtherTarget(target) == IF target = "original" THEN "imitation" ELSE "original"

\* C14: a processAndReverseAudio(blob, target) request resumes with exactly
\* one result: either the target's reversed URL is set and step is the
\* PLAYING_REVERSED_* step of that target, with error and the other URL as
\* they were, or error is set and step is IDLE, with both URLs as they were;
\* and whenever step is PLAYING_REVERSED_ORIGINAL (PLAYING_REVERSED_IMITATION)
\* the corresponding URL is non-null.
C14_SingleResult ==
  /\ lastSettled.outcome = "buffer" =>
       /\ step = PlayingStep(lastSettled.target)
       /\ ReversedUrl(App, lastSettled.target) = TRUE
       /\ ReversedUrl(App, OtherTarget(lastSettled.target))
            = ReversedUrl(lastSettled.before, OtherTarget(lastSettled.target))
       /\ error = lastSettled.before.error
  /\ lastSettled.outcome = catchResult =>
       /\ step = "IDLE"
       /\ error = TRUE
       /\ reversedOriginalAudioUrl = lastSettled.before.reversedOriginalAudioUrl
       /\ reversedImitationAudioUrl = lastSettled.before.reversedImitationAudioUrl
  /\ step = "PLAYING_REVERSED_ORIGINAL" => reversedOriginalAudioUrl = TRUE
  /\ step = "PLAYING_REVERSED_IMITATION" => reversedImitationAudioUrl = TRUE

\* the imitation's request resumed with a buffer while the original's URL
\* is held
C14_Witness ==
  /\ lastSettled.outcome = "buffer"
  /\ lastSettled.target = "imitation"
  /\ lastSettled.before.reversedImitationAudioUrl = FALSE
  /\ step = "PLAYING_REVERSED_IMITATION"
  /\ reversedOriginalAudioUrl = TRUE

\* the live intervals set by the mounted Recorder
LiveTimers == {t \in timers : t.instance = rec.instance}

\* the MediaRecorders of the mounted Recorder that are recording or paused
LiveRecorders ==
  {r \in 1..Len(recorders) :
     recorders[r].instance = rec.instance /\ recorders[r].state # "inactive"}

\* C15: in the Recorder at most one interval timer and at most one
\* MediaRecorder are live at any time, and a timer is live only while status
\* is 'recording'.
C15_OneTimerOneRecorder ==
  rec.instance # 0 =>
    /\ Cardinality(LiveTimers) <= 1
    /\ Cardinality(LiveRecorders) <= 1
    /\ LiveTimers # {} => rec.status = "recording"

\* the microphone streams with a track not yet stopped
OpenStreams == {s \in 1..Len(streams) : streams[s].live}

\* C16: every stream acquired with getUserMedia, by handleStart or by
\* startRecording, is released by the time the recording that follows it has
\* stopped or the Recorder has unmounted: no stream is open while step is
\* PLAYING_REVERSED_ORIGINAL, PLAYING_REVERSED_IMITATION or IDLE.
C16_StreamsReleased ==
  step \in PlayingSteps \cup {"IDLE"} => OpenStreams = {}

\* C17: the failure message reflects only the most recent processing
\* attempt: error is null whenever step is PLAYING_REVERSED_ORIGINAL or
\* PLAYING_REVERSED_IMITATION, and whenever a new flow has been started with
\* handleStart after the latest failure.
C17_ErrorIsLatest ==
  /\ step \in PlayingSteps => error = FALSE
  /\ flows > failedFlow => error = FALSE

\* the status changes of the Recorder: <<from, to, by>>
StatusChanges ==
  { <<"idle", "recording", "startRecording">>,
    <<"recording", "paused", "pauseRecording">>,
    <<"paused", "recording", "resumeRecording">>,
    <<"recording", "stopped", "stopRecording">>,
    <<"paused", "stopped", "stopRecording">> }

\* C18: the Recorder status changes only along idle -> recording
\* (startRecording), recording -> paused (pauseRecording), paused ->
\* recording (resumeRecording) and recording|paused -> stopped
\* (stopRecording), so that 'stopped' is left by none; onStop is delivered at
\* most once per Recorder instance, and only when status has become
\* 'stopped'.
C18_StatusMachine ==
  /\ rec.prev # "none" => <<rec.prev, rec.status, rec.by>> \in StatusChanges
  /\ \A i, j \in 1..Len(onStops) :
       onStops[i].instance = onStops[j].instance => i = j
  /\ \A i \in 1..Len(onStops) : onStops[i].status = "stopped"

====
